---- MODULE Spec2Model ----
(***************************************************************************)
(* Model of the head-tracking control loop of src/src/main.rs              *)
(* (run_main_loop, handle_key_event, SmoothedState, SpatialState,          *)
(* find_spatializer_node, update_pipewire).                                *)
(*                                                                         *)
(* Numbers.  The program computes in f64; the model uses fixed point:      *)
(*   angles        tenths of a degree        (0.5 deg  = 5)                *)
(*   radius        hundredths of a metre     (1.5 m    = 150)              *)
(*   width         tenths                    (1.0      = 10)               *)
(*   gains         ten-thousandths           (1.0      = 10000)            *)
(*   time          milliseconds                                            *)
(* and rounds every product to the nearest unit where f64 rounds to the    *)
(* nearest representable value.                                            *)
(*                                                                         *)
(* Time.  The program keeps Instants and reads their elapsed(); the model  *)
(* keeps the elapsed times themselves (sinceSearch, sinceUpdate,           *)
(* sinceFps), advanced by Tick and RecvError and saturated at the values   *)
(* the code compares them with.  sinceAttempt and sinceEval are the        *)
(* observer's stopwatches: the time since the last discovery attempt and   *)
(* since the last geometry evaluation, whatever the program does with its  *)
(* own Instants.  current_fps, raw_yaw, raw_pitch and raw_roll are only    *)
(* printed by render_dashboard and are not part of the state.              *)
(***************************************************************************)
EXTENDS Integers, Sequences, FiniteSets, TLC

VARIABLES
    pc,                 \* position in the loop body: "poll", "discover", "recv", "done"
    ev,                 \* what the last step of the loop did (history variable)
    current_radius,     \* main.rs:505
    speaker_mode,       \* main.rs:506
    reverb_enabled,     \* main.rs:507
    current_width,      \* main.rs:508
    force_update,       \* main.rs:511
    cached_node_id,     \* main.rs:480
    sinceSearch,        \* last_node_search.elapsed(), main.rs:481
    sinceUpdate,        \* last_update_time.elapsed(), main.rs:482
    sinceFps,           \* last_fps_calc.elapsed(), main.rs:486
    frame_count,        \* main.rs:485
    packet_count,       \* main.rs:490
    smoothed,           \* main.rs:477
    last_sent_yaw,      \* main.rs:493
    last_sent_pitch,    \* main.rs:494
    last_sent_radius,   \* main.rs:495
    latency_samples,    \* main.rs:498
    avg_latency_ms,     \* main.rs:499
    endpoint,           \* the last update handed to a spawned pw-cli: its message
                        \* and the yaw, pitch and radius it was computed of
    keys,               \* number of key events handled so far
    sinceAttempt,       \* time since the last discovery attempt (or the start)
    sinceEval,          \* time since the last geometry evaluation (or the start)
    rx,                 \* the datagram this iteration took from the socket, as it
                        \* was sent (history variable)
    raw_range,          \* smallest and largest raw yaw, pitch and roll of the
                        \* valid packets so far (history variable)
    node_listing,       \* what `pw-cli ls Node` prints (environment)
    spatial,            \* main.rs:553, the SpatialState this iteration computed
    latency_log         \* main.rs:571, every cmd_latency measured so far, in
                        \* the order of the dispatches (history variable)

vars == << pc, ev, current_radius, speaker_mode, reverb_enabled, current_width,
           force_update, cached_node_id, sinceSearch, sinceUpdate, sinceFps,
           frame_count, packet_count, smoothed, last_sent_yaw, last_sent_pitch,
           last_sent_radius, latency_samples, avg_latency_ms, endpoint, keys,
           sinceAttempt, sinceEval, rx, raw_range, node_listing, spatial,
           latency_log >>

settings == << current_radius, speaker_mode, reverb_enabled, current_width >>
clocks == << sinceSearch, sinceUpdate, sinceFps, sinceAttempt, sinceEval >>
memory == << last_sent_yaw, last_sent_pitch, last_sent_radius >>
latency == << latency_samples, avg_latency_ms, latency_log >>

----------------------------------------------------------------------------
(* Program constants, in the model's units.                                *)

SMOOTHING_FACTOR == 65
UPDATE_RATE_MS == 20
CHANGE_THRESHOLD == 5
RADIUS_THRESHOLD == 1
DEFAULT_RADIUS == 150
MIN_RADIUS == 10
MAX_RADIUS == 1000
RADIUS_STEP == 10
MIN_REVERB == 500
MAX_REVERB == 6000
FRONT_LEFT_ANGLE == 450
FRONT_RIGHT_ANGLE == -450
BACK_LEFT_ANGLE == 1350
BACK_RIGHT_ANGLE == -1350
DEFAULT_WIDTH == 10
MIN_WIDTH == 3
MAX_WIDTH == 15
WIDTH_STEP == 1
SPATIALIZER_NODE_NAME == "effect_input.spatializer"
BUF_LEN == 48
NODE_SEARCH_SECS == 2
FPS_WINDOW_MS == 1000
MAX_LATENCY_SAMPLES == 30
F64_MAX == 2000000000

\* bound of the model: the key events and full-size datagrams of a session
\* valid packets in a run over all settings (SpecGeometry)
MaxEvaluations == 1
\* valid packets in a run of the smoothing filter (SpecSmooth)
MaxSamples == 5
MaxInputs == 3

None == "None"
\* no datagram taken from the socket in this iteration
NoDatagram == [len |-> 0, data |-> << 0, 0, 0, 0, 0, 0 >>]
\* no valid packet so far
NoRange == [seen |-> FALSE]
\* the endpoint before any update reached it
NoParams == [sent |-> FALSE]

----------------------------------------------------------------------------
(* Arithmetic helpers.                                                     *)

Min(a, b) == IF a < b THEN a ELSE b
Max(a, b) == IF a > b THEN a ELSE b
Abs(x) == IF x < 0 THEN -x ELSE x
Clamp(x, lo, hi) == Max(lo, Min(x, hi))
\* n / d rounded to the nearest integer (d > 0), halves upward
RoundDiv(n, d) == (2 * n + d) \div (2 * d)

RECURSIVE SqrtSearch(_, _, _)
SqrtSearch(n, lo, hi) ==
    IF lo >= hi THEN lo
    ELSE LET mid == (lo + hi + 1) \div 2
         IN  IF mid * mid <= n THEN SqrtSearch(n, mid, hi)
                               ELSE SqrtSearch(n, lo, mid - 1)
\* floor of the square root of n, 0 <= n <= 10^8
ISqrt(n) == SqrtSearch(n, 0, 10000)

RECURSIVE SumSeq(_)
SumSeq(s) == IF s = << >> THEN 0 ELSE Head(s) + SumSeq(Tail(s))

----------------------------------------------------------------------------
(* SpeakerMode::base_angles: the pair returned for each mode.              *)

base_angles(mode) ==
    IF mode = "Front" THEN << BACK_LEFT_ANGLE, BACK_RIGHT_ANGLE >>
                      ELSE << FRONT_LEFT_ANGLE, FRONT_RIGHT_ANGLE >>

----------------------------------------------------------------------------
(* SmoothedState.                                                          *)

\* a slip: the filter starts away from 0
SmoothedNew_Far == [yaw |-> 100, pitch |-> 100, roll |-> 100]

SmoothedNew == [yaw |-> 0, pitch |-> 0, roll |-> 0]

\* a slip: the two coefficients are exchanged
SmoothField_Swapped(old, raw) ==
    RoundDiv((100 - SMOOTHING_FACTOR) * old, 100)
      + RoundDiv(SMOOTHING_FACTOR * raw, 100)

\* one field of SmoothedState::update: a * old + (1 - a) * raw
SmoothField(old, raw) ==
    RoundDiv(SMOOTHING_FACTOR * old, 100)
      + RoundDiv((100 - SMOOTHING_FACTOR) * raw, 100)

SmoothedUpdate(s, raw_yaw, raw_pitch, raw_roll) ==
    [yaw   |-> SmoothField(s.yaw, raw_yaw),
     pitch |-> SmoothField(s.pitch, raw_pitch),
     roll  |-> SmoothField(s.roll, raw_roll)]

----------------------------------------------------------------------------
(* SpatialState::from_head_tracking.                                       *)

\* a slip: the clamp is missing
Gain_NoClamp(radius) == RoundDiv(1000000, radius)

\* (1.0 / radius).clamp(0.1, 2.0), in ten-thousandths
Gain(radius) == Clamp(RoundDiv(1000000, radius), 1000, 20000)

\* n in millionths; the square root in thousandths, to the nearest
SqrtMillionths(n) ==
    LET s == ISqrt(n) IN IF n - s * s > s THEN s + 1 ELSE s

\* a slip: the reverb switch is not consulted
ReverbGain_AlwaysOn(radius, reverb) ==
    LET normalized ==
            Clamp(RoundDiv((radius - MIN_RADIUS) * 1000000,
                           MAX_RADIUS - MIN_RADIUS), 0, 1000000)
    IN  MIN_REVERB
          + RoundDiv(SqrtMillionths(normalized) * (MAX_REVERB - MIN_REVERB), 1000)

ReverbGain(radius, reverb) ==
    IF reverb
    THEN LET normalized ==
                 Clamp(RoundDiv((radius - MIN_RADIUS) * 1000000,
                                MAX_RADIUS - MIN_RADIUS), 0, 1000000)
         IN  MIN_REVERB
               + RoundDiv(SqrtMillionths(normalized) * (MAX_REVERB - MIN_REVERB), 1000)
    ELSE 0

\* no SpatialState computed in this iteration
NoSpatial == [left_az |-> 0, right_az |-> 0, elevation |-> 0, radius |-> 0,
              gain |-> 0, reverb_gain |-> 0]

from_head_tracking(yaw, pitch, radius, mode, reverb, width) ==
    LET base == base_angles(mode)
        left_base_scaled  == RoundDiv(base[1] * width, 10)
        right_base_scaled == RoundDiv(base[2] * width, 10)
    IN  [left_az     |-> left_base_scaled - yaw,
         right_az    |-> right_base_scaled - yaw,
         elevation   |-> -pitch,
         radius      |-> radius,
         gain        |-> Gain(radius),
         reverb_gain |-> ReverbGain(radius, reverb)]

----------------------------------------------------------------------------
(* update_pipewire: the message handed to pw-cli.  Every number is         *)
(* formatted with two decimals, so the payload is in hundredths.           *)

FmtAngle(a) == a * 10
FmtRadius(r) == r
FmtGain(g) == RoundDiv(g, 100)

Payload(id, state) ==
    LET dry_gain == 10000 - state.reverb_gain
    IN  [id          |-> id,
         spat_left   |-> << FmtAngle(state.left_az), FmtAngle(state.elevation),
                            FmtRadius(state.radius), FmtGain(state.gain) >>,
         spat_right  |-> << FmtAngle(state.right_az), FmtAngle(state.elevation),
                            FmtRadius(state.radius), FmtGain(state.gain) >>,
         final_mix_l |-> << FmtGain(dry_gain), FmtGain(state.reverb_gain) >>,
         final_mix_r |-> << FmtGain(dry_gain), FmtGain(state.reverb_gain) >>]

----------------------------------------------------------------------------
(* find_spatializer_node: the parser of the `pw-cli ls Node` listing.  A   *)
(* listing is [ok, lines]: ok says whether the command could be run, and   *)
(* lines is its output, each line << "id", <id> >>,                        *)
(* << "name", <node.name> >> or << "other", "" >>.                         *)

\* the command could not be run
ListingFail == [ok |-> FALSE, lines |-> << >>]

RECURSIVE ScanLines(_, _)
ScanLines(lines, current_id) ==
    IF lines = << >> THEN None
    ELSE LET line == Head(lines)
             id   == IF line[1] = "id" THEN line[2] ELSE current_id
         IN  IF line[1] = "name" /\ line[2] = SPATIALIZER_NODE_NAME
             THEN id
             ELSE ScanLines(Tail(lines), id)

find_spatializer_node(listing) ==
    IF ~listing.ok THEN None ELSE ScanLines(listing.lines, "")

----------------------------------------------------------------------------
(* handle_key_event.  A key is [code, ctrl]; the result is the action and  *)
(* the four settings after it.                                             *)

\* a slip: the radius wraps to the minimum instead of stopping at the maximum
RadiusUp_Wrap(r) ==
    IF r + RADIUS_STEP > MAX_RADIUS THEN MIN_RADIUS ELSE r + RADIUS_STEP

RadiusUp(r)   == Min(r + RADIUS_STEP, MAX_RADIUS)
RadiusDown(r) == Max(r - RADIUS_STEP, MIN_RADIUS)
WidthUp(w)    == Min(w + WIDTH_STEP, MAX_WIDTH)
WidthDown(w)  == Max(w - WIDTH_STEP, MIN_WIDTH)

\* a slip: a key without effect reports a change
KeyResult_NoneAsChanged(action, radius, mode, reverb, width) ==
    [action |-> IF action = "None" THEN "Changed" ELSE action,
     radius |-> radius, mode |-> mode, reverb |-> reverb, width |-> width]

KeyResult(action, radius, mode, reverb, width) ==
    [action |-> action, radius |-> radius, mode |-> mode,
     reverb |-> reverb, width |-> width]

\* a slip: the Ctrl guard is missing, so a plain 'c' quits
handle_key_event_PlainC(key, radius, mode, reverb, width) ==
    CASE key.code \in {"q", "Q", "Esc", "c"} ->
             KeyResult("Quit", radius, mode, reverb, width)
      [] key.code = "Up" ->
             KeyResult("Changed", RadiusUp(radius), mode, reverb, width)
      [] key.code = "Down" ->
             KeyResult("Changed", RadiusDown(radius), mode, reverb, width)
      [] key.code = "Right" ->
             KeyResult("Changed", radius, mode, reverb, WidthUp(width))
      [] key.code = "Left" ->
             KeyResult("Changed", radius, mode, reverb, WidthDown(width))
      [] key.code \in {"w", "W"} ->
             IF mode # "Front"
             THEN KeyResult("Changed", radius, "Front", reverb, width)
             ELSE KeyResult("None", radius, mode, reverb, width)
      [] key.code \in {"s", "S"} ->
             IF mode # "Back"
             THEN KeyResult("Changed", radius, "Back", reverb, width)
             ELSE KeyResult("None", radius, mode, reverb, width)
      [] key.code \in {"r", "R"} ->
             KeyResult("Changed", radius, mode, ~reverb, width)
      [] OTHER ->
             KeyResult("None", radius, mode, reverb, width)

\* a slip: a radius or width key that leaves the value at its bound reports
\* no change
handle_key_event_QuietAtBound(key, radius, mode, reverb, width) ==
    CASE key.code \in {"q", "Q", "Esc"} ->
             KeyResult("Quit", radius, mode, reverb, width)
      [] key.code = "c" /\ key.ctrl ->
             KeyResult("Quit", radius, mode, reverb, width)
      [] key.code = "Up" ->
             KeyResult(IF RadiusUp(radius) = radius THEN "None" ELSE "Changed",
                       RadiusUp(radius), mode, reverb, width)
      [] key.code = "Down" ->
             KeyResult(IF RadiusDown(radius) = radius THEN "None" ELSE "Changed",
                       RadiusDown(radius), mode, reverb, width)
      [] key.code = "Right" ->
             KeyResult(IF WidthUp(width) = width THEN "None" ELSE "Changed",
                       radius, mode, reverb, WidthUp(width))
      [] key.code = "Left" ->
             KeyResult(IF WidthDown(width) = width THEN "None" ELSE "Changed",
                       radius, mode, reverb, WidthDown(width))
      [] key.code \in {"w", "W"} ->
             IF mode # "Front"
             THEN KeyResult("Changed", radius, "Front", reverb, width)
             ELSE KeyResult("None", radius, mode, reverb, width)
      [] key.code \in {"s", "S"} ->
             IF mode # "Back"
             THEN KeyResult("Changed", radius, "Back", reverb, width)
             ELSE KeyResult("None", radius, mode, reverb, width)
      [] key.code \in {"r", "R"} ->
             KeyResult("Changed", radius, mode, ~reverb, width)
      [] OTHER ->
             KeyResult("None", radius, mode, reverb, width)

handle_key_event(key, radius, mode, reverb, width) ==
    CASE key.code \in {"q", "Q", "Esc"} ->
             KeyResult("Quit", radius, mode, reverb, width)
      [] key.code = "c" /\ key.ctrl ->
             KeyResult("Quit", radius, mode, reverb, width)
      [] key.code = "Up" ->
             KeyResult("Changed", RadiusUp(radius), mode, reverb, width)
      [] key.code = "Down" ->
             KeyResult("Changed", RadiusDown(radius), mode, reverb, width)
      [] key.code = "Right" ->
             KeyResult("Changed", radius, mode, reverb, WidthUp(width))
      [] key.code = "Left" ->
             KeyResult("Changed", radius, mode, reverb, WidthDown(width))
      [] key.code \in {"w", "W"} ->
             IF mode # "Front"
             THEN KeyResult("Changed", radius, "Front", reverb, width)
             ELSE KeyResult("None", radius, mode, reverb, width)
      [] key.code \in {"s", "S"} ->
             IF mode # "Back"
             THEN KeyResult("Changed", radius, "Back", reverb, width)
             ELSE KeyResult("None", radius, mode, reverb, width)
      [] key.code \in {"r", "R"} ->
             KeyResult("Changed", radius, mode, ~reverb, width)
      [] OTHER ->
             KeyResult("None", radius, mode, reverb, width)

----------------------------------------------------------------------------
(* The conditions of the loop body.                                        *)

\* Duration::as_secs
\* a slip: as_millis() in place of as_secs()
AsSecs_Millis(ms) == ms

AsSecs(ms) == ms \div 1000

\* cached_node_id.is_none() && last_node_search.elapsed().as_secs() > 2
\* a slip: the search is repeated although an id is cached
SearchDue_IgnoreCache(cached, elapsed) == AsSecs(elapsed) > NODE_SEARCH_SECS

\* a slip: is_some() in place of is_none()
SearchDue_IsSome(cached, elapsed) ==
    cached # None /\ AsSecs(elapsed) > NODE_SEARCH_SECS

SearchDue(cached, elapsed) == cached = None /\ AsSecs(elapsed) > NODE_SEARCH_SECS

\* the size recv_from reports for a datagram of len bytes read into buf:
\* what does not fit the buffer is dropped
RecvSize(len) == Min(len, BUF_LEN)

\* last_update_time.elapsed() < UPDATE_RATE_MS && !force_update
\* a slip: the negation of the force flag is missing
RateLimited_ForceOnly(elapsed, force) == elapsed < UPDATE_RATE_MS /\ force

\* a slip: the comparison is the wrong way round
RateLimited_Inverted(elapsed, force) == elapsed > UPDATE_RATE_MS /\ ~force

RateLimited(elapsed, force) == elapsed < UPDATE_RATE_MS /\ ~force

\* a slip: the update is sent whether or not an endpoint id is cached
NodeKnown_Always(cached) == TRUE

\* main.rs:563: if let Some(ref id) = cached_node_id
NodeKnown(cached) == cached # None

\* a slip: the yaw threshold is inclusive
yaw_changed_Ge(yaw, last) == Abs(yaw - last) >= CHANGE_THRESHOLD

yaw_changed(yaw, last)       == Abs(yaw - last) > CHANGE_THRESHOLD
pitch_changed(pitch, last)   == Abs(pitch - last) > CHANGE_THRESHOLD
\* a slip: the radius itself, not its change, is compared with the threshold
radius_changed_Raw(radius, last) == Abs(radius) > RADIUS_THRESHOLD

radius_changed(radius, last) == Abs(radius - last) > RADIUS_THRESHOLD

\* a slip: only the force flag opens the gate
ShouldDispatch_ForceOnly(yaw, pitch, radius, lyaw, lpitch, lradius, force) ==
    force

\* a slip: the force flag is left out of the gate
ShouldDispatch_NoForce(yaw, pitch, radius, lyaw, lpitch, lradius, force) ==
    \/ yaw_changed(yaw, lyaw)
    \/ pitch_changed(pitch, lpitch)
    \/ radius_changed(radius, lradius)

ShouldDispatch(yaw, pitch, radius, lyaw, lpitch, lradius, force) ==
    \/ yaw_changed(yaw, lyaw)
    \/ pitch_changed(pitch, lpitch)
    \/ radius_changed(radius, lradius)
    \/ force

\* a slip: yaw and pitch are stored in each other's place
SentValues_Swapped(sm, radius) == << sm.pitch, sm.yaw, radius >>

\* main.rs:580-582: what the dispatch memory becomes on a dispatch
SentValues(sm, radius) == << sm.yaw, sm.pitch, radius >>

\* the range of the raw orientations after one more valid packet
Widen(range, raw) ==
    IF range.seen
    THEN [seen |-> TRUE,
          lo   |-> [i \in 1..3 |-> Min(range.lo[i], raw[i])],
          hi   |-> [i \in 1..3 |-> Max(range.hi[i], raw[i])]]
    ELSE [seen |-> TRUE, lo |-> raw, hi |-> raw]

\* a slip: the newest sample is given up for the oldest
PushLatency_DropNewest(samples, l) ==
    LET pushed == Append(samples, l)
    IN  IF Len(pushed) > MAX_LATENCY_SAMPLES
        THEN SubSeq(pushed, 1, MAX_LATENCY_SAMPLES) ELSE pushed

\* main.rs:574-577: latency_samples after one more sample
PushLatency(samples, l) ==
    LET pushed == Append(samples, l)
    IN  IF Len(pushed) > MAX_LATENCY_SAMPLES THEN Tail(pushed) ELSE pushed

AvgLatency(samples) == RoundDiv(SumSeq(samples), Len(samples))

----------------------------------------------------------------------------
(* The state after the declarations of run_main_loop, main.rs:476-511.     *)

Init ==
    /\ pc = "poll"
    /\ ev = << "init" >>
    /\ current_radius = DEFAULT_RADIUS
    /\ speaker_mode = "Front"
    /\ reverb_enabled = FALSE
    /\ current_width = DEFAULT_WIDTH
    /\ force_update = FALSE
    /\ cached_node_id = None
    /\ sinceSearch = 0
    /\ sinceUpdate = 0
    /\ sinceFps = 0
    /\ frame_count = 0
    /\ packet_count = 0
    /\ smoothed = SmoothedNew
    /\ last_sent_yaw = F64_MAX
    /\ last_sent_pitch = F64_MAX
    /\ last_sent_radius = F64_MAX
    /\ latency_samples = << >>
    /\ avg_latency_ms = 0
    /\ endpoint = NoParams
    /\ keys = 0
    /\ sinceAttempt = 0
    /\ sinceEval = 0
    /\ rx = NoDatagram
    /\ raw_range = NoRange
    /\ node_listing = ListingFail
    /\ spatial = NoSpatial
    /\ latency_log = << >>

----------------------------------------------------------------------------
(* Time passes: every elapsed() grows by d milliseconds.                   *)

SearchCap == (NODE_SEARCH_SECS + 1) * 1000

Elapse(d) ==
    /\ sinceSearch' = Min(sinceSearch + d, SearchCap)
    /\ sinceUpdate' = Min(sinceUpdate + d, UPDATE_RATE_MS)
    /\ sinceFps' = Min(sinceFps + d, FPS_WINDOW_MS)
    /\ sinceAttempt' = Min(sinceAttempt + d, SearchCap)
    /\ sinceEval' = Min(sinceEval + d, UPDATE_RATE_MS)

Tick(d) ==
    /\ pc # "done"
    /\ Elapse(d)
    /\ UNCHANGED << pc, ev, settings, force_update, cached_node_id, frame_count,
                    packet_count, smoothed, memory, latency, endpoint, keys,
                    rx, raw_range, node_listing, spatial >>

----------------------------------------------------------------------------
(* Step 1, main.rs:514-525: at most one keyboard event per iteration.      *)

\* how the history names a key
KeyName(key) == IF key.ctrl THEN "Ctrl+" \o key.code ELSE key.code

PollKey(key) ==
    /\ pc = "poll"
    /\ LET r == handle_key_event(key, current_radius, speaker_mode,
                                 reverb_enabled, current_width)
       IN  /\ current_radius' = r.radius
           /\ speaker_mode' = r.mode
           /\ reverb_enabled' = r.reverb
           /\ current_width' = r.width
           /\ force_update' = IF r.action = "Changed" THEN TRUE ELSE force_update
           /\ pc' = IF r.action = "Quit" THEN "done" ELSE "discover"
           /\ ev' = << "key", KeyName(key), r.action >>
    /\ keys' = Min(keys + 1, MaxInputs)
    /\ rx' = NoDatagram
    /\ spatial' = NoSpatial
    /\ UNCHANGED << clocks, cached_node_id, frame_count, packet_count, smoothed,
                    memory, latency, endpoint, raw_range, node_listing >>

\* poll() reports nothing, fails, or read() yields an event that is no key
PollNoKey ==
    /\ pc = "poll"
    /\ pc' = "discover"
    /\ ev' = << "no_key" >>
    /\ rx' = NoDatagram
    /\ spatial' = NoSpatial
    /\ UNCHANGED << settings, force_update, clocks, cached_node_id, frame_count,
                    packet_count, smoothed, memory, latency, endpoint, keys,
                    raw_range, node_listing >>

----------------------------------------------------------------------------
(* Step 2, main.rs:527-531: endpoint discovery.                            *)

Discover(listing) ==
    /\ pc = "discover"
    /\ SearchDue(cached_node_id, sinceSearch)
    /\ cached_node_id' = find_spatializer_node(listing)
    /\ sinceSearch' = 0
    /\ sinceAttempt' = 0
    /\ pc' = "recv"
    /\ ev' = << "search", cached_node_id' >>
    /\ UNCHANGED << settings, force_update, sinceUpdate, sinceFps, sinceEval,
                    frame_count, packet_count, smoothed, memory, latency,
                    endpoint, keys, rx, raw_range, spatial >>
    /\ node_listing' = listing

DiscoverSkip ==
    /\ pc = "discover"
    /\ ~SearchDue(cached_node_id, sinceSearch)
    /\ pc' = "recv"
    /\ ev' = << "search_skip" >>
    /\ UNCHANGED << settings, force_update, clocks, cached_node_id, frame_count,
                    packet_count, smoothed, memory, latency, endpoint, keys,
                    rx, raw_range, node_listing, spatial >>

----------------------------------------------------------------------------
(* Step 3, main.rs:533-624: one recv_from.                                 *)

\* main.rs:616-623: timeout, would-block or another error, then the sleep.
\* d is the time the blocked receive and the sleep took.
RecvError(d) ==
    /\ pc = "recv"
    /\ Elapse(d)
    /\ pc' = "poll"
    /\ ev' = << "recv_err" >>
    /\ UNCHANGED << settings, force_update, cached_node_id, frame_count,
                    packet_count, smoothed, memory, latency, endpoint, keys,
                    rx, raw_range, node_listing, spatial >>

\* main.rs:535-615: a datagram [len, data] arrived.  spawn_ok says whether
\* pw-cli can be spawned, cmd_latency is what the spawn call takes.
RecvPacket(dgram, spawn_ok, cmd_latency) ==
    /\ pc = "recv"
    /\ pc' = "poll"
    /\ UNCHANGED << settings, cached_node_id, sinceSearch, sinceAttempt, keys,
                    node_listing >>
    /\ rx' = dgram
    /\ raw_range' = IF RecvSize(dgram.len) = BUF_LEN
                    THEN Widen(raw_range, << dgram.data[4], dgram.data[5],
                                             dgram.data[6] >>)
                    ELSE raw_range
    /\ IF RecvSize(dgram.len) = BUF_LEN
       THEN LET sm == SmoothedUpdate(smoothed, dgram.data[4], dgram.data[5],
                                     dgram.data[6])
            IN  /\ packet_count' = packet_count + 1
                /\ smoothed' = sm
                /\ IF RateLimited(sinceUpdate, force_update)
                   THEN /\ ev' = << "rate_limited" >>
                        /\ spatial' = NoSpatial
                        /\ UNCHANGED << force_update, sinceUpdate, sinceFps,
                                        sinceEval, frame_count, memory, latency,
                                        endpoint >>
                   ELSE LET computed == from_head_tracking(sm.yaw, sm.pitch,
                                           current_radius, speaker_mode,
                                           reverb_enabled, current_width)
                            dispatch ==
                                /\ NodeKnown(cached_node_id)
                                /\ ShouldDispatch(sm.yaw, sm.pitch, current_radius,
                                                  last_sent_yaw, last_sent_pitch,
                                                  last_sent_radius, force_update)
                        IN  /\ spatial' = computed
                            /\ IF dispatch
                               THEN /\ endpoint' =
                                         IF spawn_ok
                                         THEN [sent |-> TRUE,
                                               msg  |-> Payload(cached_node_id, computed),
                                               of   |-> << sm.yaw, sm.pitch,
                                                           current_radius >>]
                                         ELSE endpoint
                                    /\ latency_samples' =
                                         PushLatency(latency_samples, cmd_latency)
                                    /\ avg_latency_ms' = AvgLatency(latency_samples')
                                    /\ latency_log' =
                                         Append(latency_log, cmd_latency)
                                    /\ last_sent_yaw' =
                                         SentValues(sm, current_radius)[1]
                                    /\ last_sent_pitch' =
                                         SentValues(sm, current_radius)[2]
                                    /\ last_sent_radius' =
                                         SentValues(sm, current_radius)[3]
                                    /\ ev' = << "dispatch",
                                              IF spawn_ok THEN "sent" ELSE "lost" >>
                               ELSE /\ ev' = << "no_dispatch",
                                              IF cached_node_id = None
                                              THEN "no_node" ELSE "no_change" >>
                                    /\ UNCHANGED << memory, latency, endpoint >>
                            /\ force_update' = FALSE
                            /\ IF sinceFps >= FPS_WINDOW_MS
                               THEN frame_count' = 0 /\ sinceFps' = 0
                               ELSE frame_count' = frame_count + 1
                                    /\ sinceFps' = sinceFps
                            /\ sinceUpdate' = 0
                            /\ sinceEval' = 0
       ELSE /\ ev' = << "bad_size" >>
            /\ spatial' = NoSpatial
            /\ UNCHANGED << force_update, sinceUpdate, sinceFps, sinceEval,
                            frame_count, packet_count, smoothed, memory, latency,
                            endpoint >>

----------------------------------------------------------------------------
(* The environment: what the keyboard, the clock, pw-cli and the socket    *)
(* may deliver.                                                            *)

KeyCodes == {"q", "Q", "Esc", "c", "Up", "Down", "Right", "Left",
             "w", "W", "s", "S", "r", "R", "x"}
Keys == {[code |-> c, ctrl |-> FALSE] : c \in KeyCodes}
            \cup {[code |-> "c", ctrl |-> TRUE]}

ListingNoMatch ==
    [ok |-> TRUE,
     lines |-> << << "id", "36" >>, << "name", "alsa_output.pci" >> >>]
ListingMatch51 ==
    [ok |-> TRUE,
     lines |-> << << "id", "36" >>, << "other", "" >>,
                  << "name", "alsa_output.pci" >>,
                  << "id", "51" >>, << "name", SPATIALIZER_NODE_NAME >> >>]
ListingMatch36 ==
    [ok |-> TRUE,
     lines |-> << << "id", "36" >>, << "name", SPATIALIZER_NODE_NAME >>,
                  << "id", "51" >>, << "name", SPATIALIZER_NODE_NAME >> >>]
Listings == {ListingFail, ListingNoMatch, ListingMatch51, ListingMatch36}

\* a datagram: its length in bytes and its first six doubles,
\* << x, y, z, yaw, pitch, roll >>
Datagrams ==
    { [len |-> BUF_LEN,     data |-> << 0, 0, 0, 0, 0, 0 >>],
      [len |-> BUF_LEN,     data |-> << 1, 2, 3, 14, 14, -14 >>],
      [len |-> BUF_LEN,     data |-> << 1, 2, 3, 17, 0, 0 >>],
      [len |-> BUF_LEN + 8, data |-> << 1, 2, 3, 0, 17, 0 >>],
      [len |-> BUF_LEN - 8, data |-> << 1, 2, 3, 17, 17, 17 >>] }
Latencies == {1}
Delays == {1000}

\* the session takes at most MaxInputs key events and full-size datagrams
InputsLeft == keys + packet_count < MaxInputs

Next ==
    \/ \E d \in Delays : Tick(d)
    \/ \E k \in Keys : InputsLeft /\ PollKey(k)
    \/ PollNoKey
    \/ \E l \in Listings : Discover(l)
    \/ DiscoverSkip
    \/ \E d \in Delays : RecvError(d)
    \/ \E g \in Datagrams, ok \in BOOLEAN, l \in Latencies :
          /\ RecvSize(g.len) = BUF_LEN => InputsLeft
          /\ RecvPacket(g, ok, l)

Spec == Init /\ [][Next]_vars

----------------------------------------------------------------------------
(* A session at the keyboard alone: the tracker sends nothing of the right *)
(* size and the effect node is not running, so the settings can be walked  *)
(* over their whole range.                                                 *)

NextKeys ==
    \/ \E d \in Delays : Tick(d)
    \/ \E k \in Keys : PollKey(k)
    \/ PollNoKey
    \/ \E l \in {ListingFail, ListingNoMatch} : Discover(l)
    \/ DiscoverSkip
    \/ \E d \in Delays : RecvError(d)

SpecKeys == Init /\ [][NextKeys]_vars

----------------------------------------------------------------------------
(* C1: from the defaults, after any sequence of key events                 *)
(* 0.1 <= radius <= 10.0 and 0.3 <= width <= 1.5; a step of the loop moves *)
(* the radius and the width by at most one step of 0.1, and a radius or    *)
(* width key pressed at the bound it pushes against leaves the value at    *)
(* that bound (clamping, no wraparound).                                   *)

C1_AtBound(key, radius, width) ==
    \/ key = "Up" /\ radius = 1000
    \/ key = "Down" /\ radius = 10
    \/ key = "Right" /\ width = 15
    \/ key = "Left" /\ width = 3

C1_SettingsClamped ==
    /\ [](/\ 10 <= current_radius /\ current_radius <= 1000
          /\ 3 <= current_width /\ current_width <= 15)
    /\ [][/\ Abs(current_radius' - current_radius) <= 10
          /\ Abs(current_width' - current_width) <= 1
          /\ (pc = "poll" /\ ev'[1] = "key"
                /\ C1_AtBound(ev'[2], current_radius, current_width))
               => /\ current_radius' = current_radius
                  /\ current_width' = current_width]_vars

\* the Up key has just been handled with the radius already at 10.0 and
\* the width already at 0.3
C1_Witness ==
    /\ ev = << "key", "Up", "Changed" >>
    /\ current_radius = 1000
    /\ current_width = 3
    /\ keys = MaxInputs
    /\ force_update

----------------------------------------------------------------------------
(* Steps of the loop, as the claims below speak of them.  A packet step    *)
(* is the third step of an iteration; it evaluated the geometry and the    *)
(* gate when it ended in "dispatch" or "no_dispatch".                      *)

PacketStep == pc = "recv" /\ pc' = "poll"
Evaluated  == PacketStep /\ ev'[1] \in {"dispatch", "no_dispatch"}
Dispatched == PacketStep /\ ev'[1] = "dispatch"

(* C2: while no force flag is pending, an evaluation of the geometry and   *)
(* the gate happens only when at least 20 ms have passed since the         *)
(* previous evaluation (or since the loop started), so no 20 ms window     *)
(* holds two of them however many packets arrive in it.                    *)
C2_OneEvaluationPerWindow ==
    [][(Evaluated /\ ~force_update) => sinceEval >= 20]_vars

C2_Witness ==
    /\ ev = << "rate_limited" >>
    /\ endpoint.sent
    /\ sinceEval = 0
    /\ packet_count = 3
    /\ ~force_update

(* C3: when the gate is evaluated with an endpoint cached and the force    *)
(* flag set, the update is dispatched whatever the deltas are, and the     *)
(* message that reaches the endpoint carries the current radius, the       *)
(* current mode and width (as the separation of the two azimuths) and the  *)
(* current reverb switch.                                                  *)
C3_ForceDispatches ==
    [][(Evaluated /\ cached_node_id # None /\ force_update)
         => /\ ev'[1] = "dispatch"
            /\ ev'[2] = "sent"
                 => /\ endpoint'.msg.spat_left[3] = current_radius
                    /\ endpoint'.msg.spat_right[3] = current_radius
                    /\ endpoint'.msg.spat_left[1] - endpoint'.msg.spat_right[1]
                         = (IF speaker_mode = "Front" THEN 2700 ELSE 900)
                              * current_width
                    /\ (endpoint'.msg.final_mix_l[2] > 0) = reverb_enabled]_vars

C3_Witness ==
    /\ ev = << "dispatch", "sent" >>
    /\ Len(latency_samples) = 2
    /\ keys = 1
    /\ reverb_enabled
    /\ current_radius = 150
    /\ smoothed.yaw = 0 /\ smoothed.pitch = 0
    /\ packet_count = 2

(* C4: with an endpoint cached and no force flag, the gate dispatches      *)
(* exactly when the smoothed yaw or the smoothed pitch is more than 0.5    *)
(* degrees away from the remembered one, or the radius more than 0.01      *)
(* away from the remembered one; a difference of exactly the threshold     *)
(* does not dispatch.                                                      *)
C4_StrictThresholds ==
    [][(Evaluated /\ cached_node_id # None /\ ~force_update)
         => (ev'[1] = "dispatch"
               <=> \/ Abs(smoothed'.yaw - last_sent_yaw) > 5
                   \/ Abs(smoothed'.pitch - last_sent_pitch) > 5
                   \/ Abs(current_radius - last_sent_radius) > 1)]_vars

C4_Witness ==
    /\ ev = << "no_dispatch", "no_change" >>
    /\ Abs(smoothed.yaw - last_sent_yaw) = 5
    /\ Abs(smoothed.pitch - last_sent_pitch) = 5
    /\ current_radius = last_sent_radius

(* C5: once an update was dispatched, a packet whose smoothed yaw, pitch   *)
(* and radius are exactly the dispatched ones, with no force flag set,     *)
(* does not dispatch again.                                                *)
C5_Idempotent ==
    [][(/\ PacketStep
        /\ ~force_update
        /\ smoothed'.yaw = last_sent_yaw
        /\ smoothed'.pitch = last_sent_pitch
        /\ current_radius = last_sent_radius)
         => ev'[1] # "dispatch"]_vars

C5_Witness ==
    /\ ev = << "no_dispatch", "no_change" >>
    /\ Len(latency_samples) = 1
    /\ smoothed.yaw = last_sent_yaw
    /\ smoothed.pitch = last_sent_pitch
    /\ current_radius = last_sent_radius
    /\ packet_count = 3

(* C6: the dispatch memory becomes the smoothed yaw, the smoothed pitch    *)
(* and the radius of the evaluation exactly when the gate decides to       *)
(* dispatch, and is left as it is by every other step.                     *)
C6_MemoryFrame ==
    [][IF Dispatched
       THEN memory' = << smoothed'.yaw, smoothed'.pitch, current_radius >>
       ELSE memory' = memory]_vars

C6_Witness ==
    /\ ev[1] = "dispatch"
    /\ Len(latency_samples) = 2
    /\ last_sent_yaw = 6 /\ last_sent_pitch = 0
    /\ memory = << smoothed.yaw, smoothed.pitch, current_radius >>

(* C7: the dispatch memory is either the initial sentinel or the values    *)
(* of the last update that actually reached the endpoint, so that an       *)
(* update whose pw-cli could not be started is still seen as outstanding   *)
(* by the gate and sent again by a later packet.                           *)
C7_MemoryIsLastSent ==
    \/ memory = << F64_MAX, F64_MAX, F64_MAX >>
    \/ endpoint.sent /\ endpoint.of = memory

(* C8: once an endpoint id is cached it is never cleared or replaced, and  *)
(* no discovery is attempted again.                                        *)
SearchStep == pc = "discover" /\ pc' = "recv" /\ ev'[1] = "search"

C8_EndpointKept ==
    [][cached_node_id # None
         => cached_node_id' = cached_node_id /\ ~SearchStep]_vars

C8_Witness ==
    /\ cached_node_id # None
    /\ ev = << "search_skip" >>
    /\ sinceSearch = SearchCap
    /\ sinceAttempt = SearchCap

(* C9: a discovery is attempted only while no endpoint id is cached and    *)
(* at least 2 s after the previous attempt (after the start of the loop    *)
(* for the first one).                                                     *)
C9_SearchOnlyWhenDue ==
    [][SearchStep => cached_node_id = None /\ sinceAttempt >= 2000]_vars

C9_Witness ==
    /\ ev = << "search", None >>
    /\ pc = "recv"
    /\ cached_node_id = None
    /\ sinceAttempt = 0

(* C10: whenever the second step of an iteration finds no endpoint id      *)
(* cached and 2 s or more gone since the last attempt, it attempts a       *)
(* discovery.                                                              *)
C10_SearchWhenDue ==
    [][(/\ pc = "discover" /\ pc' = "recv"
        /\ cached_node_id = None
        /\ sinceAttempt >= 2000)
         => ev'[1] = "search"]_vars

(* C11: the loop ends only through a quit key (q, Q, Esc, Ctrl+C), and a   *)
(* quit key ends it at once: the step that reads the key goes straight to  *)
(* the end, with no discovery, receive or dispatch after it.  A packet of  *)
(* the wrong size, a receive error or timeout, a failed discovery and a    *)
(* failed spawn all hand over to the next step of the loop.                *)
C11_QuitKeys == {"q", "Q", "Esc", "Ctrl+c"}

C11_KeyStep == pc = "poll" /\ pc' # "poll"

C11_OnlyQuitEnds ==
    [][/\ pc' = "done"
          => /\ pc = "poll"
             /\ ev'[1] = "key" /\ ev'[2] \in C11_QuitKeys /\ ev'[3] = "Quit"
             /\ UNCHANGED << clocks, cached_node_id, packet_count, smoothed,
                             memory, latency, endpoint, settings >>
       /\ (C11_KeyStep /\ ev'[1] = "key" /\ ev'[2] \in C11_QuitKeys)
          => pc' = "done"
       /\ ev' \in { << "bad_size" >>, << "recv_err" >>, << "search", None >>,
                    << "dispatch", "lost" >> }
          => pc' \in {"poll", "recv"}
       /\ pc # "done"]_vars

C11_Witness ==
    /\ pc = "done"
    /\ ev = << "key", "Ctrl+c", "Quit" >>
    /\ cached_node_id # None
    /\ Len(latency_samples) = 1
    /\ ~endpoint.sent

(* C12: a datagram whose length is not exactly 48 bytes, shorter or        *)
(* longer, is discarded: the step that receives it leaves the smoothed     *)
(* orientation, the packet count, the dispatch memory, the force flag and  *)
(* the last-update time as they were and neither evaluates the geometry    *)
(* nor dispatches.                                                         *)
C12_WrongSizeDiscarded ==
    [][(PacketStep /\ rx'.len # 0 /\ rx'.len # 48)
         => /\ UNCHANGED << smoothed, packet_count, memory, force_update,
                            sinceUpdate >>
            /\ ev'[1] \notin {"dispatch", "no_dispatch"}]_vars

----------------------------------------------------------------------------
(* The smoothing filter on its own: the loop with no keyboard and no       *)
(* endpoint, fed with streams of valid packets.                            *)

SmoothDatagrams ==
    { [len |-> BUF_LEN, data |-> << 0, 0, 0, 10, -10, 0 >>],
      [len |-> BUF_LEN, data |-> << 0, 0, 0, 0, 10, 10 >>],
      [len |-> BUF_LEN, data |-> << 0, 0, 0, -10, 0, 25 >>] }

NextSmooth ==
    \/ \E d \in Delays : Tick(d)
    \/ PollNoKey
    \/ Discover(ListingFail)
    \/ DiscoverSkip
    \/ \E d \in Delays : RecvError(d)
    \/ \E g \in SmoothDatagrams :
          packet_count < MaxSamples /\ RecvPacket(g, TRUE, 1)

SpecSmooth == Init /\ [][NextSmooth]_vars

\* the step took a valid packet and updated the filter with it
Smoothed == PacketStep /\ packet_count' = packet_count + 1

C13_Near(new, old, raw) ==
    /\ Abs(100 * new - (65 * old + 35 * raw)) <= 100
    /\ Min(old, raw) - 1 <= new
    /\ new <= Max(old, raw) + 1

C14_In(x, lo, hi) == Min(lo, 0) - 1 <= x /\ x <= Max(hi, 0) + 1

----------------------------------------------------------------------------
(* The endpoint locator on its own: the loop with no keyboard and a silent *)
(* socket, while the environment changes what `pw-cli ls Node` prints.     *)
(* The loop is a sequential program that keeps running, so its next step   *)
(* is always taken in the end; the environment owes nothing.               *)

ListingChanges(listing) ==
    /\ pc # "done"
    /\ node_listing' = listing
    /\ UNCHANGED << pc, ev, settings, force_update, clocks, cached_node_id,
                    frame_count, packet_count, smoothed, memory, latency,
                    endpoint, keys, rx, raw_range, spatial >>

LoopStep ==
    \/ PollNoKey
    \/ Discover(node_listing)
    \/ DiscoverSkip
    \/ \E d \in Delays : RecvError(d)

NextRetry ==
    \/ LoopStep
    \/ \E d \in Delays : Tick(d)
    \/ \E l \in Listings : ListingChanges(l)

SpecRetry == Init /\ [][NextRetry]_vars /\ WF_vars(LoopStep)

(* C15: a failed discovery leaves the endpoint not found and restarts the  *)
(* discovery interval; while the endpoint is not found and the loop keeps  *)
(* running, another attempt is eventually made; and if from some point on  *)
(* the listing contains the target, the identifier is eventually cached.   *)
C15_RetryUntilFound ==
    /\ [][(SearchStep /\ ev'[2] = None)
            => /\ cached_node_id' = None
               /\ sinceSearch' = 0
               /\ sinceAttempt' = 0]_vars
    /\ (cached_node_id = None /\ sinceAttempt > 0) ~> (sinceAttempt = 0)
    /\ <>[](find_spatializer_node(node_listing) # None)
         => <>(cached_node_id # None)

C15_Witness ==
    /\ cached_node_id = "51"
    /\ ev = << "search", "51" >>
    /\ sinceAttempt = 0
    /\ sinceFps = FPS_WINDOW_MS
    /\ find_spatializer_node(node_listing) = "51"

(* C16: a front-mode key in Front mode, a back-mode key in Back mode and   *)
(* an unmapped key leave the radius, the width, the mode and the reverb    *)
(* switch as they are, report no change and leave the force flag as it     *)
(* is; the reverb key always flips the reverb switch, reports a change     *)
(* and sets the force flag.                                                *)
C16_NoEffect(key, mode) ==
    \/ key \in {"w", "W"} /\ mode = "Front"
    \/ key \in {"s", "S"} /\ mode = "Back"
    \/ key \in {"x", "c"}

C16_KeyNoOps ==
    [][(pc = "poll" /\ ev'[1] = "key")
         => /\ C16_NoEffect(ev'[2], speaker_mode)
                 => /\ UNCHANGED << settings, force_update >>
                    /\ ev'[3] = "None"
                    /\ pc' = "discover"
            /\ ev'[2] \in {"r", "R"}
                 => /\ reverb_enabled' = ~reverb_enabled
                    /\ UNCHANGED << current_radius, current_width, speaker_mode >>
                    /\ ev'[3] = "Changed"
                    /\ force_update']_vars

C16_Witness ==
    /\ ev = << "key", "S", "None" >>
    /\ speaker_mode = "Back"
    /\ reverb_enabled
    /\ current_radius = DEFAULT_RADIUS
    /\ current_width = DEFAULT_WIDTH

----------------------------------------------------------------------------
(* The geometry under every setting the keys can produce.  A run starts    *)
(* after the key presses that lead to the settings, each made in an        *)
(* iteration that took a datagram of the wrong size, so that neither the   *)
(* clocks nor the counters have moved; the endpoint is then found and a    *)
(* few valid packets are evaluated.                                        *)

RadiusRange == { r \in MIN_RADIUS..MAX_RADIUS : r % RADIUS_STEP = 0 }
\* the narrowest, the default and the widest setting
WidthRange  == {MIN_WIDTH, DEFAULT_WIDTH, MAX_WIDTH}

\* the least number of key presses that lead from the defaults to settings
KeysNeeded(radius, mode, reverb, width) ==
    Abs(radius - DEFAULT_RADIUS) \div RADIUS_STEP
      + Abs(width - DEFAULT_WIDTH) \div WIDTH_STEP
      + (IF mode = "Front" THEN 0 ELSE 1)
      + (IF reverb THEN 1 ELSE 0)

ShortDatagram == [len |-> BUF_LEN - 8, data |-> << 0, 0, 0, 0, 0, 0 >>]

InitGeometry ==
    /\ pc = "poll"
    /\ current_radius \in RadiusRange
    /\ speaker_mode \in {"Front", "Back"}
    /\ reverb_enabled \in BOOLEAN
    /\ current_width \in WidthRange
    /\ keys = Min(KeysNeeded(current_radius, speaker_mode, reverb_enabled,
                             current_width), MaxInputs)
    /\ force_update = (keys > 0)
    /\ ev = IF keys > 0 THEN << "bad_size" >> ELSE << "init" >>
    /\ rx = IF keys > 0 THEN ShortDatagram ELSE NoDatagram
    /\ cached_node_id = None
    /\ sinceSearch = 0
    /\ sinceUpdate = 0
    /\ sinceFps = 0
    /\ frame_count = 0
    /\ packet_count = 0
    /\ smoothed = SmoothedNew
    /\ last_sent_yaw = F64_MAX
    /\ last_sent_pitch = F64_MAX
    /\ last_sent_radius = F64_MAX
    /\ latency_samples = << >>
    /\ avg_latency_ms = 0
    /\ endpoint = NoParams
    /\ sinceAttempt = 0
    /\ sinceEval = 0
    /\ raw_range = NoRange
    /\ node_listing = ListingFail
    /\ spatial = NoSpatial
    /\ latency_log = << >>

GeometryDatagrams ==
    { [len |-> BUF_LEN, data |-> << 0, 0, 0, 0, 0, 0 >>],
      [len |-> BUF_LEN, data |-> << 1, 2, 3, 300, -200, 100 >>] }

NextGeometry ==
    \/ \E d \in Delays : Tick(d)
    \/ PollNoKey
    \/ Discover(ListingMatch51)
    \/ DiscoverSkip
    \/ \E g \in GeometryDatagrams, ok \in BOOLEAN :
          packet_count < MaxEvaluations /\ RecvPacket(g, ok, 1)

SpecGeometry == InitGeometry /\ [][NextGeometry]_vars

(* C17: whenever reverb is disabled the computed spatial state has wet     *)
(* gain exactly 0 whatever the radius, and a dispatched update carries     *)
(* dry gain 1 and wet gain 0 for the left and for the right mixer; in      *)
(* every dispatched update the dry gain is 1 minus the wet gain and the    *)
(* two mixers get the same pair.                                           *)
C17_ReverbOffIsDry ==
    [][Evaluated
         => /\ ~reverb_enabled => spatial'.reverb_gain = 0
            /\ (Dispatched /\ ev'[2] = "sent")
                 => /\ endpoint'.msg.final_mix_l = endpoint'.msg.final_mix_r
                    /\ endpoint'.msg.final_mix_l[1]
                         = 100 - endpoint'.msg.final_mix_l[2]
                    /\ ~reverb_enabled
                         => endpoint'.msg.final_mix_l = << 100, 0 >>]_vars

C17_Witness ==
    /\ ev = << "dispatch", "sent" >>
    /\ ~reverb_enabled
    /\ current_radius = 1000
    /\ spatial.reverb_gain = 0
    /\ endpoint.msg.final_mix_r = << 100, 0 >>

(* C18: the gain of the computed spatial state is 1/radius clamped to      *)
(* 0.1 .. 2.0: 1.0 at radius 1.0, 0.2 at radius 5.0, 2.0 at every radius   *)
(* of 0.5 or less, 0.1 at every radius of 10 or more, and 1/radius in      *)
(* between; so every dispatched gain is within 0.1 .. 2.0.                 *)
C18_GainClamped ==
    [][Evaluated
         => /\ spatial'.radius = current_radius
            /\ 1000 <= spatial'.gain /\ spatial'.gain <= 20000
            /\ current_radius = 100 => spatial'.gain = 10000
            /\ current_radius = 500 => spatial'.gain = 2000
            /\ current_radius <= 50 => spatial'.gain = 20000
            /\ current_radius >= 1000 => spatial'.gain = 1000
            /\ (50 < current_radius /\ current_radius < 1000)
                 => 2 * Abs(spatial'.gain * current_radius - 1000000)
                      <= current_radius
            /\ \A r \in {1, 5, 49} :
                 from_head_tracking(0, 0, r, "Front", FALSE, 10).gain = 20000
            /\ \A r \in {1001, 2000} :
                 from_head_tracking(0, 0, r, "Front", FALSE, 10).gain = 1000
            /\ (Dispatched /\ ev'[2] = "sent")
                 => /\ endpoint'.msg.spat_left[4] \in 10..200
                    /\ endpoint'.msg.spat_right[4]
                         = endpoint'.msg.spat_left[4]]_vars

C18_Witness ==
    /\ ev = << "dispatch", "sent" >>
    /\ current_radius = 10
    /\ spatial.gain = 20000
    /\ endpoint.msg.spat_left[4] = 200

(* C19: a valid packet that arrives less than 20 ms after the last         *)
(* evaluation while no force flag is pending updates the smoothed          *)
(* orientation and the packet count and nothing else: no geometry is       *)
(* computed, nothing is dispatched, and the dispatch memory, the force     *)
(* flag, the frame counter and the last-update time stay as they are.      *)
C19_RateLimitedFrame ==
    [][(PacketStep /\ rx'.len = 48 /\ sinceEval < 20 /\ ~force_update)
         => /\ ev' = << "rate_limited" >>
            /\ smoothed' = SmoothedUpdate(smoothed, rx'.data[4], rx'.data[5],
                                          rx'.data[6])
            /\ packet_count' = packet_count + 1
            /\ spatial' = NoSpatial
            /\ UNCHANGED << memory, force_update, frame_count, sinceUpdate,
                            sinceFps, sinceEval, latency, endpoint, settings,
                            cached_node_id, sinceSearch >>]_vars

C19_Witness ==
    /\ ev = << "rate_limited" >>
    /\ rx.len = 48
    /\ packet_count = 2
    /\ smoothed.yaw = 6
    /\ sinceEval = 0
    /\ cached_node_id # None
    /\ last_sent_yaw = 0

(* C20: a force flag that is set stays set across receive timeouts,        *)
(* receive errors and packets of the wrong size; the next valid packet is  *)
(* evaluated in full however little time has passed since the last         *)
(* evaluation; and the flag is cleared at the end of that evaluation and   *)
(* by nothing else.                                                        *)
C20_ForcePersists ==
    [][force_update
         => /\ (PacketStep /\ rx'.len # 48) => force_update'
            /\ (PacketStep /\ rx'.len = 48) => Evaluated /\ ~force_update'
            /\ ~force_update' => Evaluated /\ rx'.len = 48]_vars

----------------------------------------------------------------------------
(* A long session with the endpoint running: the user toggles the reverb   *)
(* again and again while the head rests, so that every evaluated packet    *)
(* dispatches and the latency history fills and overflows.  Starting       *)
(* pw-cli takes 1 ms, and 2 ms on at most MaxSlow occasions.               *)

\* packets the session takes beyond the capacity of the latency history
MaxExtra == 2
\* dispatches of the session whose pw-cli is slow to start
MaxSlow == 1

ReverbKey == [code |-> "r", ctrl |-> FALSE]
RestingDatagram == [len |-> BUF_LEN, data |-> << 0, 0, 0, 0, 0, 0 >>]
SpawnLatencies == {1, 40}
SlowSoFar == Cardinality({i \in DOMAIN latency_log : latency_log[i] # 1})

NextLatency ==
    \/ PollKey(ReverbKey)
    \/ PollNoKey
    \/ Discover(ListingMatch51)
    \/ DiscoverSkip
    \/ \E d \in Delays : cached_node_id = None /\ RecvError(d)
    \/ \E l \in SpawnLatencies :
          /\ cached_node_id # None
          /\ packet_count < MAX_LATENCY_SAMPLES + MaxExtra
          /\ l # 1 => SlowSoFar < MaxSlow
          /\ RecvPacket(RestingDatagram, TRUE, l)

SpecLatency == Init /\ [][NextLatency]_vars

\* the last n elements of a sequence
LastOf(s, n) == SubSeq(s, Len(s) - n + 1, Len(s))

(* C21: the latency history never holds more than 30 samples; each         *)
(* dispatch appends one sample and, when that makes 31, removes the        *)
(* oldest, so the history is always the most recent samples (at most 30)   *)
(* in the order they arrived, and the displayed average is the mean of     *)
(* exactly those samples (0 while there is none).                          *)
C21_LatencyHistory ==
    /\ Len(latency_samples) <= 30
    /\ latency_samples = LastOf(latency_log, Min(Len(latency_log), 30))
    /\ avg_latency_ms = IF latency_samples = << >> THEN 0
                        ELSE RoundDiv(SumSeq(latency_samples),
                                      Len(latency_samples))

C21_Witness ==
    /\ Len(latency_log) = 31
    /\ latency_log[1] = 40
    /\ latency_samples = [i \in 1..30 |-> 1]
    /\ avg_latency_ms = 1
    /\ ev = << "dispatch", "sent" >>


(* C22: while no endpoint id is cached, no step sends a parameter update   *)
(* or changes the dispatch memory, the latency history or its average,     *)
(* whatever packet or key the step handles; a step that evaluates the      *)
(* geometry in that state still leaves the force flag cleared.             *)
C22_NothingSentWithoutEndpoint ==
    [][cached_node_id = None
         => /\ UNCHANGED << endpoint, memory, latency_samples, avg_latency_ms >>
            /\ Evaluated => ~force_update']_vars

C22_Witness ==
    /\ ev = << "no_dispatch", "no_node" >>
    /\ cached_node_id = None
    /\ reverb_enabled /\ keys = 1
    /\ packet_count = 1
    /\ sinceAttempt = 0 /\ sinceEval = 0
    /\ ~force_update
    /\ memory = << F64_MAX, F64_MAX, F64_MAX >>
    /\ latency_samples = << >>
    /\ ~endpoint.sent


(* C23: as long as nothing was dispatched the dispatch memory holds the    *)
(* never-sent sentinel, and nothing is dispatched before an endpoint id is *)
(* cached; so the first evaluation with an endpoint id cached dispatches,  *)
(* forced or not, and when pw-cli starts the message carries the geometry  *)
(* of the settings current at that evaluation, whenever they were made.    *)
C23_FirstEvaluationDispatches ==
    /\ [](latency_log = << >> => memory = << F64_MAX, F64_MAX, F64_MAX >>)
    /\ [](cached_node_id = None => latency_log = << >>)
    /\ [][(Evaluated /\ cached_node_id # None /\ latency_log = << >>)
            => /\ ev'[1] = "dispatch"
               /\ latency_log' # << >>
               /\ ev'[2] = "sent"
                    => endpoint'.msg =
                         Payload(cached_node_id,
                                 from_head_tracking(smoothed'.yaw, smoothed'.pitch,
                                     current_radius, speaker_mode,
                                     reverb_enabled, current_width))]_vars

C23_Witness ==
    /\ ev = << "dispatch", "sent" >>
    /\ Len(latency_log) = 1
    /\ cached_node_id # None
    /\ sinceSearch = 0
    /\ keys = 1 /\ reverb_enabled
    /\ packet_count = 2
    /\ endpoint.msg.final_mix_l[2] > 0


----------------------------------------------------------------------------
(* A user leaning on an arrow key whose setting has reached its bound.     *)
(* The session starts as that of SpecGeometry, with the radius at its      *)
(* least, default or greatest value, and the only keys pressed are arrow   *)
(* keys that push against a bound; the head rests, and the socket also     *)
(* delivers datagrams that are too short or too long.                      *)

\* full-size datagrams the session takes
MaxForced == 3

ArrowKeys == {[code |-> c, ctrl |-> FALSE] : c \in {"Up", "Down", "Right", "Left"}}

PushesBound(key, radius, width) ==
    \/ key.code = "Up" /\ RadiusUp(radius) = radius
    \/ key.code = "Down" /\ RadiusDown(radius) = radius
    \/ key.code = "Right" /\ WidthUp(width) = width
    \/ key.code = "Left" /\ WidthDown(width) = width

LongDatagram == [len |-> BUF_LEN + 8, data |-> << 0, 0, 0, 0, 0, 0 >>]
BoundDatagrams == {RestingDatagram, ShortDatagram, LongDatagram}

InitBound ==
    /\ InitGeometry
    /\ current_radius \in {MIN_RADIUS, DEFAULT_RADIUS, MAX_RADIUS}

NextBound ==
    \/ \E d \in Delays : Tick(d)
    \/ \E k \in ArrowKeys :
          PushesBound(k, current_radius, current_width) /\ PollKey(k)
    \/ PollNoKey
    \/ Discover(ListingMatch51)
    \/ DiscoverSkip
    \/ \E d \in Delays : RecvError(d)
    \/ \E g \in BoundDatagrams, ok \in BOOLEAN :
          /\ RecvSize(g.len) = BUF_LEN => packet_count < MaxForced
          /\ RecvPacket(g, ok, 1)

SpecBound == InitBound /\ [][NextBound]_vars

(* C24: a radius or width key reports Changed and sets the force flag      *)
(* also when the value is at its bound and stays the same; the flag then   *)
(* stays set until the loop takes a packet for valid (recv_from reports    *)
(* 48 bytes), and with an endpoint id cached that packet dispatches an     *)
(* update although the smoothed yaw, the smoothed pitch and the radius     *)
(* are the last dispatched ones and no setting has changed.                *)
C24_KeyAtBoundForces ==
    [][/\ (pc = "poll" /\ ev'[1] = "key"
             /\ ev'[2] \in {"Up", "Down", "Right", "Left"})
          => /\ ev'[3] = "Changed"
             /\ force_update'
             /\ C1_AtBound(ev'[2], current_radius, current_width)
                  => UNCHANGED settings
       /\ (force_update /\ ~(PacketStep /\ RecvSize(rx'.len) = BUF_LEN))
          => force_update'
       /\ (PacketStep /\ RecvSize(rx'.len) = BUF_LEN
             /\ force_update /\ cached_node_id # None)
          => /\ ev'[1] = "dispatch"
             /\ ~force_update'
             /\ Len(latency_log') = Len(latency_log) + 1]_vars

\* the second dispatch of a session in which no setting has changed and
\* the head has not moved: only a key at its bound can have caused it
C24_Witness ==
    /\ ev = << "dispatch", "sent" >>
    /\ Len(latency_log) = 2
    /\ current_radius = MAX_RADIUS
    /\ current_width = MIN_WIDTH
    /\ memory = << 0, 0, MAX_RADIUS >>
    /\ smoothed.yaw = 0 /\ smoothed.pitch = 0
    /\ rx = RestingDatagram

====
